---- MODULE Spec2Model ----
(***************************************************************************)
(* Model of the mean-reversion trader's signal and decision pipeline:      *)
(*   trading_logic_service.py      prepare_features_for_prediction,        *)
(*                                 get_trade_decision                      *)
(*   technical_indicator_service.py add_bollinger_bands,                   *)
(*                                 add_all_technical_indicators            *)
(*   run_live_trade.py             main                                    *)
(*   oanda_api_service.py          get_instrument_details,                 *)
(*                                 get_historical_candles, place_trade,    *)
(*                                 get_open_trades                         *)
(*                                                                         *)
(* Numbers.  A pandas cell is either NaN or a float.  A cell is modelled   *)
(* as NaN == <<>> or <<x>>.  Prices are integers counting units of         *)
(* 10^-PriceScale, and arithmetic on them is exact: the binary rounding    *)
(* error of a float is not modelled.  The indicator engine computes in     *)
(* exact extended rationals (n/d, +inf, -inf, and NaN), following IEEE 754 *)
(* on division by zero; square roots are rounded down to 1/Fine.           *)
(*                                                                         *)
(* Five specifications over inputs drawn from bounded sets:                *)
(*   Spec      get_trade_decision on a frame, a model and a precision      *)
(*   SpecFeat  prepare_features_for_prediction on a feature candle         *)
(*   SpecInd   add_all_technical_indicators on a candle series             *)
(*   SpecMain  one cycle of run_live_trade.main over INSTRUMENTS, the      *)
(*             broker and the model answering as an environment may        *)
(*   SpecPair  two evaluations of get_trade_decision, side by side         *)
(* live_trader_config is not among the sources: SL_PIPS is taken from the  *)
(* specification's scenario (20), the periods range up to MaxPeriod.       *)
(***************************************************************************)
EXTENDS Integers, Naturals, Sequences, FiniteSets, TLC

VARIABLES
    pc,                 \* which operation, if any, has been applied
    df_with_indicators, \* get_trade_decision: the frame it was given
    model,              \* get_trade_decision: what model.predict does when called
    model_features,     \* the expected feature-name list
    pip_location,       \* instrument precision context
    display_precision,
    decision,           \* what get_trade_decision did
    feature_candle,     \* prepare_features_for_prediction: its row argument
    features_out,       \* polarity -> what prepare_features_for_prediction returned
    closes,             \* indicator engine: the close column of the input frame
    config,             \* indicator engine: the periods of live_trader_config
    df_out,             \* indicator engine: the augmented rows
    instrument_index,   \* main: position of the instrument loop (1-based)
    events,             \* main: what the cycle did so far, in order
    earlier             \* an earlier evaluation, kept to compare two of them

vars == <<pc, df_with_indicators, model, model_features, pip_location,
          display_precision, decision, feature_candle, features_out,
          closes, config, df_out, instrument_index, events, earlier>>

\* the state of main and of the comparison, untouched by the other operations
main_vars == <<instrument_index, events, earlier>>

----------------------------------------------------------------------------
(* Bounds of the model *)

\* the prices of an evaluation are 3000 + 7 * k for k in 0..MaxLevel
MaxLevel == 2
\* prices count units of 10^-PriceScale
PriceScale == 3

PriceLevels == {3000 + 7 * k : k \in 0..MaxLevel}

----------------------------------------------------------------------------
(* Cells *)

NaN == <<>>
Num(x) == <<x>>
Val(c) == c[1]
isnull(c) == c = NaN
notna(c) == c # NaN

Cells(S) == {NaN} \cup {Num(x) : x \in S}

RECURSIVE Pow10(_)
Pow10(n) == IF n <= 0 THEN 1 ELSE 10 * Pow10(n - 1)

Abs(x) == IF x < 0 THEN -x ELSE x

\* Series.get(key, default): the cell of the column, the default when the
\* row has no such column.
get(row, key, default) == IF key \in DOMAIN row THEN row[key] ELSE default

\* dict.get(key, default) on the features dictionary
dict_get(d, key, default) == IF key \in DOMAIN d THEN d[key] ELSE default

SeqToSet(s) == {s[i] : i \in 1..Len(s)}

----------------------------------------------------------------------------
(* Price formatting: f"{price:.{display_precision}f}"                      *)
(* The string is modelled by its parts: sign, integer part and the digits  *)
(* after the point, most significant first.  Python rounds the exact value *)
(* of the float to the nearest decimal, ties to even.  A decimal tie that  *)
(* has no exact binary representation is decided by the float's            *)
(* representation error, which exact arithmetic does not carry; the prices *)
(* of the model produce no ties.                                           *)

FormatPrice(raw, precision) ==
    LET a == Abs(raw)
        d == Pow10(PriceScale - precision)
        q0 == a \div d
        r == a % d
        q == IF precision >= PriceScale
             THEN a * Pow10(precision - PriceScale)
             ELSE q0 + (IF 2 * r > d \/ (2 * r = d /\ q0 % 2 = 1) THEN 1 ELSE 0)
    IN  [neg  |-> raw < 0,
         int  |-> q \div Pow10(precision),
         frac |-> [i \in 1..precision |-> (q \div Pow10(precision - i)) % 10]]

\* The number a formatted string denotes, in units of 10^-(number of digits
\* after the point).
RECURSIVE FracValue(_, _)
FracValue(frac, n) == IF n = 0 THEN 0 ELSE 10 * FracValue(frac, n - 1) + frac[n]
ParsePrice(s) ==
    LET m == s.int * Pow10(Len(s.frac)) + FracValue(s.frac, Len(s.frac))
    IN  IF s.neg THEN -m ELSE m

----------------------------------------------------------------------------
(* Configuration (live_trader_config) *)

\* stop-loss distance in pips
SL_PIPS == 20

\* 10 ** pip_location, in price units
pip_value(pl) == Pow10(PriceScale + pl)

----------------------------------------------------------------------------
(* Rows.  A row of the indicator frame (a pandas Series) is                *)
(*   [name |-> its index label, cols |-> column name -> cell].             *)
(* The label is <<"Timestamp", hour, dayofweek>> for a DatetimeIndex and   *)
(* <<"RangeIndex", i>> otherwise.                                          *)

None == <<>>
Some(x) == <<x>>

is_timestamp(label) == label[1] = "Timestamp"

\* float comparison: false when either side is NaN
gt(a, b) == notna(a) /\ notna(b) /\ Val(a) > Val(b)
lt(a, b) == notna(a) /\ notna(b) /\ Val(a) < Val(b)

----------------------------------------------------------------------------
(* prepare_features_for_prediction *)

\* lines 53-59
break_type(upper_break, lower_break) ==
    IF upper_break THEN Num(1)
    ELSE IF lower_break THEN Num(0)
    ELSE NaN

\* A plausible bug: the distance to the central band taken with the same
\* sign for both polarities.
profit_potential_one_sign(row, upper_break, lower_break) ==
    LET price_at_decision == get(row, "close", NaN)
        bb_middle_at_decision == get(row, "bb_middle", NaN)
    IN  IF notna(price_at_decision) /\ notna(bb_middle_at_decision)
             /\ (upper_break \/ lower_break)
        THEN Num((Val(price_at_decision) - Val(bb_middle_at_decision)) * 10000)
        ELSE NaN

\* lines 61-75.  The unit of the result is 10^-PriceScale, as for prices.
profit_potential(row, upper_break, lower_break) ==
    LET price_at_decision == get(row, "close", NaN)
        bb_middle_at_decision == get(row, "bb_middle", NaN)
    IN  IF notna(price_at_decision) /\ notna(bb_middle_at_decision)
        THEN IF upper_break
             THEN Num((Val(price_at_decision) - Val(bb_middle_at_decision)) * 10000)
             ELSE IF lower_break
             THEN Num((Val(bb_middle_at_decision) - Val(price_at_decision)) * 10000)
             ELSE NaN
        ELSE NaN

\* lines 29-75: the features dictionary
features_dict(feature_candle_data, upper_break, lower_break, expected_feature_list) ==
    LET row == feature_candle_data.cols
        basic == [k \in {"bb_percent", "rsi", "macd", "macd_signal",
                         "price_change_1", "price_change_5", "volatility"}
                    |-> get(row, k, NaN)]
        volume == IF "volume_ratio" \in SeqToSet(expected_feature_list)
                  THEN [k \in {"volume_ratio"} |-> get(row, "volume_ratio", NaN)]
                  ELSE [k \in {} |-> NaN]
        time == IF is_timestamp(feature_candle_data.name)
                THEN ("hour" :> Num(feature_candle_data.name[2])) @@
                     ("day_of_week" :> Num(feature_candle_data.name[3]))
                ELSE ("hour" :> NaN) @@ ("day_of_week" :> NaN)
    IN  basic @@ volume @@ time @@
        ("break_type" :> break_type(upper_break, lower_break)) @@
        ("profit_potential" :> profit_potential(row, upper_break, lower_break))

\* lines 77-83: the one-row frame, in the order of the expected list
feature_values_ordered(features, expected_feature_list) ==
    [i \in 1..Len(expected_feature_list) |->
        dict_get(features, expected_feature_list[i], NaN)]

\* features_df.isnull().values.any()
any_null(values) == \E i \in 1..Len(values) : isnull(values[i])

\* A plausible bug: an undefined feature is filled with 0 (fillna(0)) instead
\* of rejecting the vector.
prepare_features_fillna(feature_candle_data, upper_break, lower_break, expected_feature_list) ==
    LET values == feature_values_ordered(
                     features_dict(feature_candle_data, upper_break,
                                   lower_break, expected_feature_list),
                     expected_feature_list)
    IN  Some([columns |-> expected_feature_list,
              values  |-> [i \in 1..Len(values) |->
                             IF isnull(values[i]) THEN Num(0) ELSE values[i]]])

\* lines 24-98: the one-row DataFrame, or None when any expected feature is
\* undefined.
prepare_features_for_prediction(feature_candle_data, upper_break, lower_break, expected_feature_list) ==
    LET values == feature_values_ordered(
                     features_dict(feature_candle_data, upper_break,
                                   lower_break, expected_feature_list),
                     expected_feature_list)
    IN  IF any_null(values)
        THEN None
        ELSE Some([columns |-> expected_feature_list, values |-> values])

----------------------------------------------------------------------------
(* get_trade_decision *)

\* df.iloc[-k]
iloc_neg(df, k) == df[Len(df) - k + 1]

\* line 119: the candle that may carry the signal
signal_eval_candle(df) == iloc_neg(df, 2)

\* A plausible bug: features, stop-loss and take-profit read from the signal
\* candle (the off-by-one the comments of lines 110-113 describe).
feature_extraction_candle_signal(df) == iloc_neg(df, 2)

\* line 120: the candle the features, the stop-loss reference and the
\* take-profit are read from
feature_extraction_candle(df) == iloc_neg(df, 1)

\* A plausible bug: .all() for .any().
signal_fields_null_all(row) ==
    \A c \in {"close", "bb_upper", "bb_lower"} : isnull(row.cols[c])

\* lines 123, 126: signal_eval_candle[critical_cols_signal].isnull().any()
signal_fields_null(row) ==
    \E c \in {"close", "bb_upper", "bb_lower"} : isnull(row.cols[c])

\* line 132: feature_extraction_candle[['close', 'bb_middle']].isnull().any()
feature_fields_null(row) ==
    \E c \in {"close", "bb_middle"} : isnull(row.cols[c])

\* lines 136, 137
is_upper_break(row) == gt(row.cols["close"], row.cols["bb_upper"])
is_lower_break(row) == lt(row.cols["close"], row.cols["bb_lower"])

\* A plausible bug: the exclusivity test left out.
break_detected_inclusive(upper, lower) == upper \/ lower

\* line 139
break_detected(upper, lower) == (upper \/ lower) /\ ~(upper /\ lower)

\* The injected model: [raises |-> TRUE, ...] when predict raises on this
\* vector, [raises |-> FALSE, label |-> n] when it returns label n.
\* A plausible bug: no try/except around the call.
predict_unguarded(m, features_df) ==
    [propagated |-> m.raises, caught |-> FALSE, prediction |-> m.label]

\* lines 148-157: model.predict(features_df)[0] inside try/except Exception
predict_guarded(m, features_df) ==
    [propagated |-> FALSE, caught |-> m.raises, prediction |-> m.label]

\* A plausible bug: any non-zero label trades.
signals_trade_nonzero(prediction) == prediction # 0

\* line 159
signals_trade(prediction) == prediction = 1

\* A plausible bug: the stop-loss on the wrong side of the entry.
trade_parameters_swapped(candle, upper, pl, dp) ==
    LET entry_price_reference == Val(candle.cols["close"])
        sl_offset == SL_PIPS * pip_value(pl)
    IN  [trade_direction |-> Some(IF upper THEN "SELL" ELSE "BUY"),
         sl_price_str    |-> Some(FormatPrice(IF upper
                                              THEN entry_price_reference - sl_offset
                                              ELSE entry_price_reference + sl_offset, dp)),
         tp_price_str    |-> Some(FormatPrice(Val(candle.cols["bb_middle"]), dp))]

\* lines 160-180: the order parameters after a prediction of 1
trade_parameters(candle, upper, pl, dp) ==
    LET entry_price_reference == Val(candle.cols["close"])
        tp_price_raw == Val(candle.cols["bb_middle"])
        sl_offset == SL_PIPS * pip_value(pl)
        trade_direction == IF upper THEN "SELL" ELSE "BUY"
        sl_price_raw == IF upper
                        THEN entry_price_reference + sl_offset
                        ELSE entry_price_reference - sl_offset
    IN  [trade_direction |-> Some(trade_direction),
         sl_price_str    |-> Some(FormatPrice(sl_price_raw, dp)),
         tp_price_str    |-> Some(FormatPrice(tp_price_raw, dp))]

\* What one call of get_trade_decision did: whether an exception left it,
\* the returned triple, how often the feature builder and model.predict were
\* called, and the frame predict was called with.
Outcome(propagated, triple, prepare_calls, predict_calls, predict_arg) ==
    [raised          |-> propagated,
     trade_direction |-> triple.trade_direction,
     sl_price_str    |-> triple.sl_price_str,
     tp_price_str    |-> triple.tp_price_str,
     prepare_calls   |-> prepare_calls,
     predict_calls   |-> predict_calls,
     predict_arg     |-> predict_arg]

\* A variant that tells the caller of a breakout that ended without a trade:
\* a direction of "NONE" once the feature builder has been called.
NoTrade_marking_breakout(prepare_calls, predict_calls, predict_arg) ==
    Outcome(FALSE,
            [trade_direction |-> IF prepare_calls = 1 THEN Some("NONE") ELSE None,
             sl_price_str |-> None, tp_price_str |-> None],
            prepare_calls, predict_calls, predict_arg)

\* return None, None, None
NoTrade(prepare_calls, predict_calls, predict_arg) ==
    Outcome(FALSE,
            [trade_direction |-> None, sl_price_str |-> None, tp_price_str |-> None],
            prepare_calls, predict_calls, predict_arg)

\* lines 101-186
get_trade_decision(df, m, features, pl, dp) ==
    IF Len(df) < 2
    THEN NoTrade(0, 0, None)
    ELSE
    LET signal == signal_eval_candle(df)
        feature == feature_extraction_candle(df)
        upper == is_upper_break(signal)
        lower == is_lower_break(signal)
        features_df == prepare_features_for_prediction(feature, upper, lower, features)
        p == predict_guarded(m, features_df)
    IN  IF signal_fields_null(signal)
        THEN NoTrade(0, 0, None)
        ELSE IF feature_fields_null(feature)
        THEN NoTrade(0, 0, None)
        ELSE IF break_detected(upper, lower)
        THEN IF features_df = None
             THEN NoTrade(1, 0, None)
             ELSE IF p.propagated
             THEN Outcome(TRUE,
                          [trade_direction |-> None, sl_price_str |-> None,
                           tp_price_str |-> None],
                          1, 1, features_df)
             ELSE IF p.caught
             THEN NoTrade(1, 1, features_df)
             ELSE IF signals_trade(p.prediction)
             THEN Outcome(FALSE, trade_parameters(feature, upper, pl, dp),
                          1, 1, features_df)
             ELSE NoTrade(1, 1, features_df)
        ELSE NoTrade(0, 0, None)

----------------------------------------------------------------------------
(* Inputs of an evaluation *)

\* A row of add_all_technical_indicators' output: every column is present
\* (volume_ratio only when the candles carry a volume).
Row(label, close, bb_upper, bb_lower, bb_middle, rsi, with_volume) ==
    [name |-> label,
     cols |-> [k \in {"close", "bb_upper", "bb_lower", "bb_middle", "rsi"} |->
                  CASE k = "close" -> close
                    [] k = "bb_upper" -> bb_upper
                    [] k = "bb_lower" -> bb_lower
                    [] k = "bb_middle" -> bb_middle
                    [] k = "rsi" -> rsi]
              @@ [k \in {"bb_percent", "macd", "macd_signal", "price_change_1",
                         "price_change_5", "volatility"} |-> Num(1)]
              @@ [k \in {"hour", "day_of_week"} |->
                    IF is_timestamp(label) THEN Num(label[IF k = "hour" THEN 2 ELSE 3])
                    ELSE NaN]
              @@ [k \in (IF with_volume THEN {"volume_ratio"} ELSE {}) |-> Num(1)]]

PriceCells == Cells(PriceLevels)

\* the candle before the signal candle
OlderRow == Row(<<"Timestamp", 9, 2>>, Num(2900), Num(2950), Num(2850), Num(2900),
                Num(50), TRUE)

\* signal candles: close and both bands range over the price cells (a lower
\* band above the upper band included); the central band is its own value
SignalRows ==
    {Row(<<"Timestamp", 9, 2>>, c, u, l, Num(2990), Num(50), TRUE) :
        c \in PriceCells, u \in PriceCells, l \in PriceCells}

FeatureVariants == {"complete", "rsi_nan", "no_volume", "no_timestamp"}

FeatureRow(c, mid, variant) ==
    Row(IF variant = "no_timestamp" THEN <<"RangeIndex", 7>> ELSE <<"Timestamp", 10, 2>>,
        c, Num(3100), Num(2800), mid,
        IF variant = "rsi_nan" THEN NaN ELSE Num(50),
        variant # "no_volume")

FeatureRows ==
    {FeatureRow(c, mid, v) : c \in PriceCells, mid \in PriceCells, v \in FeatureVariants}

FeatureLists ==
    { <<"bb_percent", "rsi", "macd", "macd_signal", "price_change_1",
        "price_change_5", "volatility", "volume_ratio", "hour", "day_of_week",
        "break_type", "profit_potential">>,
      <<"rsi", "break_type", "profit_potential">>,
      <<"rsi", "atr", "break_type">> }

\* what the injected model does when predict is called
ModelBehaviours ==
    {[raises |-> TRUE, label |-> 0]} \cup {[raises |-> FALSE, label |-> n] : n \in 0..2}

\* (pip_location, display_precision) of the instrument
PrecisionContexts == {<<-2, 3>>, <<-1, 2>>}

----------------------------------------------------------------------------
(* The decision engine as a state machine: one evaluation per behaviour *)

Init ==
    /\ pc = "idle"
    /\ df_with_indicators = <<>>
    /\ model = [raises |-> FALSE, label |-> 0]
    /\ model_features = <<>>
    /\ pip_location = 0
    /\ display_precision = 0
    /\ decision = NoTrade(0, 0, None)
    /\ feature_candle = OlderRow
    /\ features_out = None
    /\ closes = <<>>
    /\ config = [BOLLINGER_PERIOD |-> 2, BOLLINGER_STD_DEV |-> 2, RSI_PERIOD |-> 1]
    /\ df_out = <<>>
    /\ instrument_index = 1
    /\ events = <<>>
    /\ earlier = None

Decide(df, m, features, ctx) ==
    /\ pc' = "decided"
    /\ df_with_indicators' = df
    /\ model' = m
    /\ model_features' = features
    /\ pip_location' = ctx[1]
    /\ display_precision' = ctx[2]
    /\ decision' = get_trade_decision(df, m, features, ctx[1], ctx[2])
    /\ UNCHANGED <<feature_candle, features_out, closes, config, df_out, main_vars>>

\* an evaluation of a frame with a signal candle and a feature candle
Evaluate ==
    /\ pc = "idle"
    /\ \E s \in SignalRows, f \in FeatureRows, m \in ModelBehaviours,
       features \in FeatureLists, ctx \in PrecisionContexts :
        Decide(<<OlderRow, s, f>>, m, features, ctx)

\* an evaluation of a frame of at most two rows
EvaluateShort ==
    /\ pc = "idle"
    /\ \E n \in 0..2, s \in {Row(<<"Timestamp", 9, 2>>, Num(3014), Num(3007), Num(3000),
                              Num(2990), Num(50), TRUE)},
       f \in {FeatureRow(Num(3000), Num(3007), v) : v \in FeatureVariants},
       m \in ModelBehaviours, features \in FeatureLists, ctx \in PrecisionContexts :
        Decide(SubSeq(<<s, f>>, 3 - n, 2), m, features, ctx)

Next == Evaluate \/ EvaluateShort

Spec == Init /\ [][Next]_vars

----------------------------------------------------------------------------
(* Properties of get_trade_decision *)

Decided == pc = "decided"
HasCandles == Decided /\ Len(df_with_indicators) >= 2
SignalCandle == df_with_indicators[Len(df_with_indicators) - 1]
FeatureCandle == df_with_indicators[Len(df_with_indicators)]
IsTrade == decision.trade_direction # None
IsNoTrade ==
    /\ decision.trade_direction = None
    /\ decision.sl_price_str = None
    /\ decision.tp_price_str = None

SignalDefined ==
    /\ notna(SignalCandle.cols["close"])
    /\ notna(SignalCandle.cols["bb_upper"])
    /\ notna(SignalCandle.cols["bb_lower"])
BrokeAbove ==
    SignalDefined /\ Val(SignalCandle.cols["close"]) > Val(SignalCandle.cols["bb_upper"])
BrokeBelow ==
    SignalDefined /\ Val(SignalCandle.cols["close"]) < Val(SignalCandle.cols["bb_lower"])

\* The expected feature `name` has no defined value on the feature candle.
IndicatorFeatures == {"bb_percent", "rsi", "macd", "macd_signal", "price_change_1",
                      "price_change_5", "volatility", "volume_ratio"}
FeatureUndefined(name, row, upper, lower) ==
    CASE name \in IndicatorFeatures ->
            name \notin DOMAIN row.cols \/ isnull(row.cols[name])
      [] name \in {"hour", "day_of_week"} -> row.name[1] # "Timestamp"
      [] name = "break_type" -> ~upper /\ ~lower
      [] name = "profit_potential" ->
            \/ ~upper /\ ~lower
            \/ isnull(row.cols["close"]) \/ isnull(row.cols["bb_middle"])
      [] OTHER -> TRUE
SomeFeatureUndefined ==
    \E i \in 1..Len(model_features) :
        FeatureUndefined(model_features[i], FeatureCandle, BrokeAbove, BrokeBelow)

\* the stop-loss distance, in price units
SlOffset == SL_PIPS * Pow10(PriceScale + pip_location)

\* C1: a trade is returned only if every gate passed in that evaluation: the
\* signal candle's close is strictly above its upper band or strictly below
\* its lower band (exactly one of the two), every expected feature is
\* defined on the feature candle, and model.predict was called once and
\* returned 1 without raising.  Every other evaluation returns
\* (None, None, None).
C1_TradeOnlyIfAllGates ==
    Decided =>
        /\ IsTrade \/ IsNoTrade
        /\ IsTrade =>
            /\ Len(df_with_indicators) >= 2
            /\ BrokeAbove # BrokeBelow
            /\ ~SomeFeatureUndefined
            /\ decision.prepare_calls = 1
            /\ decision.predict_calls = 1
            /\ ~model.raises
            /\ model.label = 1
            /\ ~decision.raised
            /\ decision.trade_direction \in {Some("SELL"), Some("BUY")}
            /\ decision.sl_price_str # None
            /\ decision.tp_price_str # None

C1_Witness == Decided /\ IsTrade /\ BrokeBelow /\ ~BrokeAbove

\* C2: a returned trade is SELL after a break above the upper band and BUY
\* after a break below the lower band, and its stop-loss is the feature
\* candle's close plus (SELL) or minus (BUY) SL_PIPS * 10^pip_location,
\* rendered at display_precision.
C2_DirectionAndStopLoss ==
    (Decided /\ IsTrade) =>
        /\ notna(FeatureCandle.cols["close"])
        /\ BrokeAbove \/ BrokeBelow
        /\ BrokeAbove =>
            /\ decision.trade_direction = Some("SELL")
            /\ decision.sl_price_str =
                 Some(FormatPrice(Val(FeatureCandle.cols["close"]) + SlOffset,
                                  display_precision))
        /\ BrokeBelow =>
            /\ decision.trade_direction = Some("BUY")
            /\ decision.sl_price_str =
                 Some(FormatPrice(Val(FeatureCandle.cols["close"]) - SlOffset,
                                  display_precision))

\* a SELL whose signal close differs from the feature close, visibly so in
\* the rendered stop-loss
C2_Witness ==
    /\ Decided /\ IsTrade /\ BrokeAbove
    /\ decision.sl_price_str #
         Some(FormatPrice(Val(SignalCandle.cols["close"]) + SlOffset, display_precision))

\* C3: the take-profit of a returned trade is the feature candle's central
\* band, for SELL and BUY alike, rendered with exactly display_precision
\* digits after the point and within half a unit of the last digit of the
\* raw value.
C3_TakeProfit ==
    (Decided /\ IsTrade) =>
        /\ notna(FeatureCandle.cols["bb_middle"])
        /\ decision.tp_price_str # None
        /\ LET tp == Val(decision.tp_price_str)
               raw == Val(FeatureCandle.cols["bb_middle"])
               unit == Pow10(PriceScale - display_precision)
           IN  /\ Len(tp.frac) = display_precision
               /\ \A i \in 1..Len(tp.frac) : tp.frac[i] \in 0..9
               /\ decision.tp_price_str = Some(FormatPrice(raw, display_precision))
               /\ 2 * Abs(ParsePrice(tp) * unit - raw) <= unit

\* a BUY whose rendered take-profit is not the signal candle's central band
C3_Witness ==
    /\ Decided /\ IsTrade /\ BrokeBelow
    /\ decision.tp_price_str #
         Some(FormatPrice(Val(SignalCandle.cols["bb_middle"]), display_precision))
    /\ Val(FeatureCandle.cols["bb_middle"]) % Pow10(PriceScale - display_precision) # 0

\* C4: an exception raised by model.predict never leaves get_trade_decision,
\* and the evaluation returns (None, None, None).
C4_PredictExceptionCaught ==
    Decided =>
        /\ ~decision.raised
        /\ (model.raises /\ decision.predict_calls > 0) => IsNoTrade

C4_Witness == Decided /\ model.raises /\ decision.predict_calls = 1 /\ IsNoTrade

\* C5: when an expected feature is undefined on the feature candle,
\* model.predict is not called and no trade is returned; whatever frame
\* predict is called with holds no undefined value and no substituted one.
C5_IncompleteFeaturesFailClosed ==
    HasCandles =>
        /\ SomeFeatureUndefined =>
            /\ IsNoTrade
            /\ decision.predict_calls = 0
            /\ decision.predict_arg = None
        /\ decision.predict_arg # None =>
            LET frame == Val(decision.predict_arg)
            IN  /\ frame.columns = model_features
                /\ \A i \in 1..Len(frame.values) :
                     /\ notna(frame.values[i])
                     /\ frame.columns[i] \in IndicatorFeatures =>
                          frame.values[i] = FeatureCandle.cols[frame.columns[i]]

\* a breakout whose feature vector is incomplete, with a model that would
\* have answered 1
C5_Witness ==
    /\ HasCandles /\ SomeFeatureUndefined
    /\ BrokeAbove # BrokeBelow
    /\ decision.prepare_calls = 1
    /\ ~model.raises /\ model.label = 1

\* C6: when close, the upper band or the lower band is undefined on the
\* signal candle, the evaluation returns (None, None, None) without raising,
\* without building features and without calling model.predict.
C6_UndefinedSignalIsNoSignal ==
    (HasCandles /\ ~SignalDefined) =>
        /\ IsNoTrade
        /\ ~decision.raised
        /\ decision.prepare_calls = 0
        /\ decision.predict_calls = 0

\* an undefined upper band on a candle that closed below its lower band
C6_Witness ==
    /\ HasCandles
    /\ isnull(SignalCandle.cols["bb_upper"])
    /\ lt(SignalCandle.cols["close"], SignalCandle.cols["bb_lower"])
    /\ ~model.raises /\ model.label = 1
    /\ IsNoTrade

\* C7: at most one of the two breakouts is acted on, and a signal candle
\* that satisfies both comparisons is treated as no breakout.
C7_BreakoutExclusive ==
    HasCandles =>
        /\ (BrokeAbove /\ BrokeBelow) =>
            /\ IsNoTrade
            /\ decision.prepare_calls = 0
            /\ decision.predict_calls = 0
        /\ decision.prepare_calls > 0 => (BrokeAbove # BrokeBelow)

\* close above the upper band and below the lower band at once
C7_Witness ==
    /\ HasCandles /\ BrokeAbove /\ BrokeBelow
    /\ ~feature_fields_null(FeatureCandle)
    /\ ~model.raises /\ model.label = 1

----------------------------------------------------------------------------
(* The feature builder on its own: one feature candle and one expected     *)
(* list, the builder applied once per breakout polarity                    *)

Polarities == BOOLEAN \X BOOLEAN

BuildFeatures ==
    /\ pc = "idle"
    /\ \E row \in FeatureRows, features \in FeatureLists, pol \in Polarities :
        /\ feature_candle' = row
        /\ model_features' = features
        /\ features_out' =
             (pol :> prepare_features_for_prediction(row, pol[1], pol[2], features))
    /\ pc' = "prepared"
    /\ UNCHANGED <<df_with_indicators, model, pip_location, display_precision,
                   decision, closes, config, df_out, main_vars>>

BuildFeaturesAgain ==
    /\ pc = "prepared"
    /\ \E pol \in Polarities \ DOMAIN features_out :
        features_out' = features_out @@
            (pol :> prepare_features_for_prediction(feature_candle, pol[1], pol[2],
                                                    model_features))
    /\ UNCHANGED <<pc, df_with_indicators, model, model_features, pip_location,
                   display_precision, decision, feature_candle, closes, config,
                   df_out, main_vars>>

NextFeat == BuildFeatures \/ BuildFeaturesAgain

SpecFeat == Init /\ [][NextFeat]_vars

\* the value of column `name` in a returned one-row frame
Column(frame, name) ==
    frame.values[CHOOSE i \in 1..Len(frame.columns) : frame.columns[i] = name]
HasColumn(frame, name) == \E i \in 1..Len(frame.columns) : frame.columns[i] = name

UpperOnly == <<TRUE, FALSE>>
LowerOnly == <<FALSE, TRUE>>
Built(pol) == pc = "prepared" /\ pol \in DOMAIN features_out
CandleComplete ==
    /\ notna(feature_candle.cols["close"])
    /\ notna(feature_candle.cols["bb_middle"])
    /\ \A i \in 1..Len(model_features) :
         ~FeatureUndefined(model_features[i], feature_candle, TRUE, FALSE)

\* C8: on a feature candle with defined close and central band,
\* profit_potential is (close - bb_middle) * 10000 for an upper breakout and
\* (bb_middle - close) * 10000 for a lower breakout, each the negation of
\* the other, and break_type is 1 for upper and 0 for lower.  The factor is
\* 10000 whatever the instrument: the builder is not given pip_location.
C8_ProfitPotentialSign ==
    LET close == Val(feature_candle.cols["close"])
        middle == Val(feature_candle.cols["bb_middle"])
        up == Val(features_out[UpperOnly])
        low == Val(features_out[LowerOnly])
    IN  /\ (Built(UpperOnly) /\ CandleComplete) =>
            /\ features_out[UpperOnly] # None
            /\ HasColumn(up, "profit_potential") =>
                 Column(up, "profit_potential") = Num((close - middle) * 10000)
            /\ HasColumn(up, "break_type") => Column(up, "break_type") = Num(1)
        /\ (Built(LowerOnly) /\ CandleComplete) =>
            /\ features_out[LowerOnly] # None
            /\ HasColumn(low, "profit_potential") =>
                 Column(low, "profit_potential") = Num((middle - close) * 10000)
            /\ HasColumn(low, "break_type") => Column(low, "break_type") = Num(0)
        /\ (Built(UpperOnly) /\ Built(LowerOnly) /\ CandleComplete
              /\ "profit_potential" \in SeqToSet(model_features)) =>
            Val(Column(up, "profit_potential")) = -Val(Column(low, "profit_potential"))

\* both polarities built on one candle whose close is off its central band
C8_Witness ==
    /\ Built(UpperOnly) /\ Built(LowerOnly) /\ CandleComplete
    /\ "profit_potential" \in SeqToSet(model_features)
    /\ "break_type" \in SeqToSet(model_features)
    /\ feature_candle.cols["close"] # feature_candle.cols["bb_middle"]
    /\ features_out[UpperOnly] # None /\ features_out[LowerOnly] # None

----------------------------------------------------------------------------
(* Float arithmetic of the indicator engine.                               *)
(* A defined cell holds an extended rational [n |-> numerator, d |->       *)
(* denominator]: d > 0 for a finite value (in lowest terms), d = 0 with    *)
(* n = 1 or n = -1 for +inf and -inf.  The operators follow IEEE 754 on    *)
(* NaN, infinities and division by zero; the sign of a zero is not         *)
(* carried, so x / 0 has the sign of x.                                    *)

RECURSIVE GCD(_, _)
GCD(a, b) == IF b = 0 THEN a ELSE GCD(b, a % b)

Sign(x) == IF x > 0 THEN 1 ELSE IF x < 0 THEN -1 ELSE 0

\* the float n / d, for d # 0
Q(n, d) ==
    LET g == GCD(Abs(n), Abs(d))
    IN  Num([n |-> Sign(d) * (n \div g), d |-> Abs(d) \div g])
F(n) == Num([n |-> n, d |-> 1])
Inf(sign) == Num([n |-> sign, d |-> 0])

is_inf(c) == notna(c) /\ Val(c).d = 0
is_finite(c) == notna(c) /\ Val(c).d > 0

fneg(a) == IF isnull(a) THEN NaN ELSE Num([n |-> -Val(a).n, d |-> Val(a).d])

fadd(a, b) ==
    IF isnull(a) \/ isnull(b) THEN NaN
    ELSE IF is_inf(a) /\ is_inf(b) THEN (IF Val(a).n = Val(b).n THEN a ELSE NaN)
    ELSE IF is_inf(a) THEN a
    ELSE IF is_inf(b) THEN b
    ELSE Q(Val(a).n * Val(b).d + Val(b).n * Val(a).d, Val(a).d * Val(b).d)

fsub(a, b) == fadd(a, fneg(b))

fmul(a, b) ==
    IF isnull(a) \/ isnull(b) THEN NaN
    ELSE IF is_inf(a) \/ is_inf(b)
    THEN (IF Val(a).n = 0 \/ Val(b).n = 0 THEN NaN
          ELSE Inf(Sign(Val(a).n) * Sign(Val(b).n)))
    ELSE Q(Val(a).n * Val(b).n, Val(a).d * Val(b).d)

fdiv(a, b) ==
    IF isnull(a) \/ isnull(b) THEN NaN
    ELSE IF is_inf(a) THEN (IF is_inf(b) THEN NaN
                            ELSE Inf(Val(a).n * (IF Val(b).n < 0 THEN -1 ELSE 1)))
    ELSE IF is_inf(b) THEN F(0)
    ELSE IF Val(b).n = 0 THEN (IF Val(a).n = 0 THEN NaN ELSE Inf(Sign(Val(a).n)))
    ELSE Q(Val(a).n * Val(b).d, Val(a).d * Val(b).n)

\* a > b and a < b on floats: false when either side is NaN
fgt(a, b) ==
    /\ notna(a) /\ notna(b)
    /\ IF is_inf(a) \/ is_inf(b)
       THEN (IF is_inf(a) THEN Val(a).n ELSE 0) > (IF is_inf(b) THEN Val(b).n ELSE 0)
       ELSE Val(a).n * Val(b).d > Val(b).n * Val(a).d
flt(a, b) == fgt(b, a)

\* square roots are rounded down to a multiple of 1 / Fine
Fine == 100

RECURSIVE SqrtSearch(_, _, _)
SqrtSearch(x, lo, hi) ==
    IF lo >= hi THEN lo
    ELSE LET mid == (lo + hi + 1) \div 2
         IN  IF mid * mid <= x THEN SqrtSearch(x, mid, hi)
             ELSE SqrtSearch(x, lo, mid - 1)
ISqrt(x) == SqrtSearch(x, 0, IF x < 46340 THEN x ELSE 46340)

fsqrt(a) ==
    IF isnull(a) \/ (is_finite(a) /\ Val(a).n < 0) \/ (is_inf(a) /\ Val(a).n < 0)
    THEN NaN
    ELSE IF is_inf(a) THEN a
    ELSE Q(ISqrt((Val(a).n * Fine * Fine) \div Val(a).d), Fine)

----------------------------------------------------------------------------
(* pandas column operations; a column is a sequence of cells *)

\* Series.diff()
diff(col) == [i \in 1..Len(col) |-> IF i = 1 THEN NaN ELSE fsub(col[i], col[i - 1])]

\* Series.pct_change(k)
pct_change(col, k) ==
    [i \in 1..Len(col) |->
        IF i <= k THEN NaN ELSE fsub(fdiv(col[i], col[i - k]), F(1))]

\* the observations of the trailing window that ends at row i
WindowObs(col, window, i) ==
    {j \in (IF i - window + 1 < 1 THEN 1 ELSE i - window + 1)..i : notna(col[j])}

RECURSIVE SumOver(_, _)
SumOver(col, rows) ==
    IF rows = {} THEN F(0)
    ELSE LET j == CHOOSE r \in rows : \A o \in rows : r <= o
         IN  fadd(col[j], SumOver(col, rows \ {j}))

\* Series.rolling(window, min_periods).mean(), at row i
rolling_mean_at(col, window, min_periods, i) ==
    LET obs == WindowObs(col, window, i)
        nobs == Cardinality(obs)
    IN  IF nobs >= min_periods /\ nobs > 0
        THEN fdiv(SumOver(col, obs), F(nobs))
        ELSE NaN

rolling_mean(col, window, min_periods) ==
    [i \in 1..Len(col) |-> rolling_mean_at(col, window, min_periods, i)]

\* Series.rolling(window, min_periods).std(), at row i (sample deviation,
\* ddof = 1)
rolling_std_at(col, window, min_periods, i) ==
    LET obs == WindowObs(col, window, i)
        nobs == Cardinality(obs)
        mean == fdiv(SumOver(col, obs), F(nobs))
        squares == [j \in 1..Len(col) |->
                       IF j \in obs THEN fmul(fsub(col[j], mean), fsub(col[j], mean))
                       ELSE NaN]
    IN  IF nobs >= min_periods /\ nobs > 1
        THEN fsqrt(fdiv(SumOver(squares, obs), F(nobs - 1)))
        ELSE NaN

rolling_std(col, window, min_periods) ==
    [i \in 1..Len(col) |-> rolling_std_at(col, window, min_periods, i)]

----------------------------------------------------------------------------
(* technical_indicator_service.py.  A frame is column name -> column.  Of  *)
(* the columns add_all_technical_indicators adds, the model carries those  *)
(* computed from close by rolling windows and differences: the Bollinger   *)
(* columns, rsi, price_change_1, price_change_5 and volatility.  The       *)
(* exponentially weighted columns (macd, macd_signal), the volume columns  *)
(* and the calendar columns are not carried.                               *)

col_add(a, b) == [i \in 1..Len(a) |-> fadd(a[i], b[i])]
col_sub(a, b) == [i \in 1..Len(a) |-> fsub(a[i], b[i])]
col_scale(a, k) == [i \in 1..Len(a) |-> fmul(a[i], k)]

\* A plausible bug: the bands computed with min_periods=1, as volatility is.
add_bollinger_bands_min1(df, period, std_dev) ==
    LET bb_middle == rolling_mean(df["close"], period, 1)
        bb_std == rolling_std(df["close"], period, 1)
        bb_upper == col_add(bb_middle, col_scale(bb_std, std_dev))
        bb_lower == col_sub(bb_middle, col_scale(bb_std, std_dev))
        bb_range == col_sub(bb_upper, bb_lower)
    IN  df @@ [c \in {"bb_middle", "bb_upper", "bb_lower", "bb_percent"} |->
                 CASE c = "bb_middle" -> bb_middle
                   [] c = "bb_upper" -> bb_upper
                   [] c = "bb_lower" -> bb_lower
                   [] c = "bb_percent" ->
                        [i \in 1..Len(bb_range) |->
                            IF bb_range[i] # F(0)
                            THEN fdiv(fsub(df["close"][i], bb_lower[i]), bb_range[i])
                            ELSE NaN]]

\* lines 8-18
add_bollinger_bands(df, period, std_dev) ==
    LET bb_middle == rolling_mean(df["close"], period, period)
        bb_std == rolling_std(df["close"], period, period)
        bb_upper == col_add(bb_middle, col_scale(bb_std, std_dev))
        bb_lower == col_sub(bb_middle, col_scale(bb_std, std_dev))
        bb_range == col_sub(bb_upper, bb_lower)
    IN  df @@ [c \in {"bb_middle", "bb_upper", "bb_lower", "bb_percent"} |->
                 CASE c = "bb_middle" -> bb_middle
                   [] c = "bb_upper" -> bb_upper
                   [] c = "bb_lower" -> bb_lower
                   [] c = "bb_percent" ->
                        [i \in 1..Len(bb_range) |->
                            IF bb_range[i] # F(0)
                            THEN fdiv(fsub(df["close"][i], bb_lower[i]), bb_range[i])
                            ELSE NaN]]

\* delta.where(delta > 0, 0) and delta.where(delta < 0, 0)
where_positive(delta) == [i \in 1..Len(delta) |-> IF fgt(delta[i], F(0)) THEN delta[i] ELSE F(0)]
where_negative(delta) == [i \in 1..Len(delta) |-> IF flt(delta[i], F(0)) THEN delta[i] ELSE F(0)]

\* A plausible bug: the minus sign of line 30 left out.
rsi_column_signed_loss(close, rsi_period) ==
    LET delta == diff(close)
        gain == rolling_mean(where_positive(delta), rsi_period, 1)
        loss == rolling_mean(where_negative(delta), rsi_period, 1)
    IN  [i \in 1..Len(close) |->
            fsub(F(100), fdiv(F(100), fadd(F(1), fdiv(gain[i], loss[i]))))]

\* lines 28-32
rsi_column(close, rsi_period) ==
    LET delta == diff(close)
        gain == rolling_mean(where_positive(delta), rsi_period, 1)
        loss == rolling_mean([i \in 1..Len(delta) |-> fneg(where_negative(delta)[i])],
                             rsi_period, 1)
    IN  [i \in 1..Len(close) |->
            LET rs == fdiv(gain[i], loss[i])
            IN  fsub(F(100), fdiv(F(100), fadd(F(1), rs)))]

\* lines 20-61; cfg holds the constants of live_trader_config
add_all_technical_indicators(df, cfg) ==
    LET bands == add_bollinger_bands(df, cfg.BOLLINGER_PERIOD, F(cfg.BOLLINGER_STD_DEV))
    IN  bands @@
        [c \in {"rsi", "price_change_1", "price_change_5", "volatility"} |->
            CASE c = "rsi" -> rsi_column(bands["close"], cfg.RSI_PERIOD)
              [] c = "price_change_1" -> pct_change(bands["close"], 1)
              [] c = "price_change_5" -> pct_change(bands["close"], 5)
              [] c = "volatility" -> rolling_std(bands["close"], 20, 1)]

----------------------------------------------------------------------------
(* The indicator engine on a candle series *)

\* candles per series, and the largest configured period
MaxLen == 5
MaxPeriod == 3

\* the periods of live_trader_config: every positive period up to MaxPeriod
Configs ==
    [BOLLINGER_PERIOD : 1..MaxPeriod, BOLLINGER_STD_DEV : {2}, RSI_PERIOD : 1..MaxPeriod]

\* closes of the candle series
SeriesCloses == {3000, 3007, 3014}

ComputeIndicators ==
    /\ pc = "idle"
    /\ \E n \in 1..MaxLen, cfg \in Configs :
        \E cs \in [1..n -> SeriesCloses] :
            /\ closes' = cs
            /\ config' = cfg
            /\ df_out' = add_all_technical_indicators(
                            [c \in {"close"} |-> [i \in 1..n |-> F(cs[i])]], cfg)
    /\ pc' = "computed"
    /\ UNCHANGED <<df_with_indicators, model, model_features, pip_location,
                   display_precision, decision, feature_candle, features_out,
                   main_vars>>

NextInd == ComputeIndicators

SpecInd == Init /\ [][NextInd]_vars

----------------------------------------------------------------------------
(* Properties of the indicator engine *)

Computed == pc = "computed"
Rows == 1..Len(closes)

\* the rows of the trailing oscillator window of row i that carry a
\* close-delta (the first row of a series has none)
DeltaRows(i) ==
    {j \in Rows : j >= 2 /\ j <= i /\ j > i - config.RSI_PERIOD}
NegativeDelta(i) == \E j \in DeltaRows(i) : closes[j] < closes[j - 1]
PositiveDelta(i) == \E j \in DeltaRows(i) : closes[j] > closes[j - 1]

InZeroToHundred(c) ==
    /\ is_finite(c)
    /\ 0 <= Val(c).n
    /\ Val(c).n <= 100 * Val(c).d

\* C9 as stated: rsi is undefined or in [0,100] on every row, and is exactly
\* 100 on every row whose trailing window holds no negative close-delta.
C9_AsStated ==
    Computed =>
        \A i \in Rows :
            /\ isnull(df_out["rsi"][i]) \/ InZeroToHundred(df_out["rsi"][i])
            /\ ~NegativeDelta(i) => df_out["rsi"][i] = F(100)

\* C9, amended: rsi is undefined or in [0,100] on every row.  On a row whose
\* trailing window holds no negative close-delta it is exactly 100 when the
\* window holds a positive close-delta, and undefined (0/0) when it holds
\* none: the first row of a series, or a window of equal closes.
C9_OscillatorRangeAndSaturation ==
    Computed =>
        /\ Len(df_out["rsi"]) = Len(closes)
        /\ \A i \in Rows :
            /\ isnull(df_out["rsi"][i]) \/ InZeroToHundred(df_out["rsi"][i])
            /\ (~NegativeDelta(i) /\ PositiveDelta(i)) => df_out["rsi"][i] = F(100)
            /\ (~NegativeDelta(i) /\ ~PositiveDelta(i)) => isnull(df_out["rsi"][i])
            /\ NegativeDelta(i) => notna(df_out["rsi"][i])

\* a series with a saturated row, a flat window after the first row, and a
\* row strictly inside the range
C9_Witness ==
    /\ Computed
    /\ \E i \in Rows : ~NegativeDelta(i) /\ df_out["rsi"][i] = F(100)
    /\ \E i \in Rows : i > 1 /\ ~NegativeDelta(i) /\ isnull(df_out["rsi"][i])
    /\ \E i \in Rows : NegativeDelta(i) /\ PositiveDelta(i)

\* C10 as stated: add_bollinger_bands keeps the length and order of the
\* series; bb_middle, bb_upper and bb_lower are undefined on exactly the
\* first BOLLINGER_PERIOD - 1 rows and defined on every later row, so on
\* every row of a series shorter than the period.
C10_AsStated ==
    Computed =>
        /\ df_out["close"] = [i \in Rows |-> F(closes[i])]
        /\ \A c \in {"bb_middle", "bb_upper", "bb_lower"} :
            /\ Len(df_out[c]) = Len(closes)
            /\ \A i \in Rows :
                 isnull(df_out[c][i]) <=> i <= config.BOLLINGER_PERIOD - 1
        /\ Len(closes) < config.BOLLINGER_PERIOD =>
             \A c \in {"bb_middle", "bb_upper", "bb_lower"}, i \in Rows :
                 isnull(df_out[c][i])

\* a period of 1: the sample deviation of a window of one candle is
\* undefined, so the outer bands are undefined on every row while the
\* central band is the close
BandsOfPeriodOne ==
    /\ Computed
    /\ config.BOLLINGER_PERIOD = 1
    /\ \A i \in Rows : /\ df_out["bb_middle"][i] = F(closes[i])
                        /\ isnull(df_out["bb_upper"][i])
                        /\ isnull(df_out["bb_lower"][i])

\* C10, amended: add_bollinger_bands keeps the length and order of the
\* series.  bb_middle is undefined on exactly the first BOLLINGER_PERIOD - 1
\* rows and defined on every later row.  For a period of at least 2 the
\* same holds for bb_upper and bb_lower; for a period of 1 bb_upper and
\* bb_lower are undefined on every row.  A series shorter than the period
\* has all three undefined on every row.
C10_BandWarmUp ==
    Computed =>
        /\ df_out["close"] = [i \in Rows |-> F(closes[i])]
        /\ \A c \in {"bb_middle", "bb_upper", "bb_lower"} :
             Len(df_out[c]) = Len(closes)
        /\ \A i \in Rows :
             isnull(df_out["bb_middle"][i]) <=> i <= config.BOLLINGER_PERIOD - 1
        /\ \A c \in {"bb_upper", "bb_lower"}, i \in Rows :
             IF config.BOLLINGER_PERIOD >= 2
             THEN isnull(df_out[c][i]) <=> i <= config.BOLLINGER_PERIOD - 1
             ELSE isnull(df_out[c][i])
        /\ config.BOLLINGER_PERIOD = 1 =>
             \A i \in Rows : df_out["bb_middle"][i] = F(closes[i])
        /\ Len(closes) < config.BOLLINGER_PERIOD =>
             \A c \in {"bb_middle", "bb_upper", "bb_lower"}, i \in Rows :
                 isnull(df_out[c][i])

\* a series longer than the period, with a window of equal closes
C10_Witness ==
    /\ Computed
    /\ Len(closes) > config.BOLLINGER_PERIOD
    /\ notna(df_out["bb_upper"][Len(closes)])
    /\ \E i \in Rows : notna(df_out["bb_upper"][i])
                       /\ df_out["bb_upper"][i] = df_out["bb_lower"][i]

----------------------------------------------------------------------------
(* oanda_api_service.py.  A request either raises or answers; what the     *)
(* broker would answer is part of the reply, so that the state of the      *)
(* account is known to the model also when the request fails.              *)

\* lines 17-35; reply.instruments is the list of the account's instruments
get_instrument_details(reply, instrument_name) ==
    LET found == {i \in 1..Len(reply.instruments) :
                     reply.instruments[i].name = instrument_name}
        first == CHOOSE i \in found : \A j \in found : i <= j
    IN  IF reply.raises \/ found = {}
        THEN <<None, None>>
        ELSE <<Some(reply.instruments[first].pipLocation),
               Some(reply.instruments[first].displayPrecision)>>

\* lines 38-64: the frame of the candles, empty when the request raises
get_historical_candles(reply) ==
    IF reply.raises
    THEN [c \in {"close"} |-> <<>>]
    ELSE [c \in {"close"} |-> [i \in 1..Len(reply.candles) |-> F(reply.candles[i])]]

\* lines 90-101: the first open trade of the instrument, None when there is
\* none and None when the request raises
get_open_trades(reply, instrument_name) ==
    LET found == {i \in 1..Len(reply.trades) :
                     reply.trades[i].instrument = instrument_name}
        first == CHOOSE i \in found : \A j \in found : i <= j
    IN  IF reply.raises \/ found = {}
        THEN None
        ELSE Some(reply.trades[first])

\* lines 66-88: the order as requested and how the call ends.  A response is
\* the set of the keys of the broker's answer.  When the request raises, the
\* call returns None if its handler completes; the handler of V20Error
\* (lines 81-85) tests 'message' in e.msg and then reads e.msg['message'],
\* which raises TypeError when msg is None (line 83) and when msg is a text
\* containing 'message' (line 84).  That exception is raised inside the
\* except clause, so the clause of line 86 does not catch it: it leaves
\* place_trade, and `raised` names it.
place_trade(reply, instrument, units, direction, sl_price, tp_price) ==
    LET trade_units == IF direction = "BUY" THEN units ELSE -units
        e == reply.error
        raised ==
            IF ~reply.raises THEN None
            ELSE IF e.type # "V20Error" THEN None
            ELSE IF e.msg.type = "NoneType" THEN Some("TypeError")
            ELSE IF ~e.msg.has_message THEN None
            ELSE IF e.msg.type = "str" THEN Some("TypeError")
            ELSE None
    IN  [order    |-> [instrument       |-> instrument,
                       units            |-> trade_units,
                       stopLossOnFill   |-> sl_price,
                       takeProfitOnFill |-> tp_price],
         raised   |-> raised,
         response |-> IF reply.raises THEN None ELSE Some(reply.keys)]

----------------------------------------------------------------------------
(* run_live_trade.py *)

\* live_trader_config
INSTRUMENTS == <<"EUR_USD", "USD_JPY">>
TRADE_UNITS == 1000

\* line 73
MIN_CANDLES == 30

\* line 73: df_candles.empty or len(df_candles) < 30
too_few_candles(df_candles) ==
    Len(df_candles["close"]) = 0 \/ Len(df_candles["close"]) < MIN_CANDLES

\* line 78: a band undefined on one of the last two rows
bands_null_recent(frame) ==
    \E i \in {Len(frame["close"]) - 1, Len(frame["close"])} :
        \E c \in {"bb_upper", "bb_lower", "bb_middle"} : isnull(frame[c][i])

\* A price of the frame in units of 10^-PriceScale, as get_trade_decision
\* computes with it.  The bands of the candle series below are whole units.
price_cell(c) == IF isnull(c) THEN NaN ELSE Num(Val(c).n \div Val(c).d)

\* The rows of the frame add_all_technical_indicators returned, as
\* get_trade_decision reads them.  The index is the candles' time (line 60
\* of oanda_api_service.py); the columns the indicator engine does not carry
\* are defined on every row.
indicator_rows(frame) ==
    [i \in 1..Len(frame["close"]) |->
        LET row == Row(<<"Timestamp", 9, 2>>,
                       price_cell(frame["close"][i]), price_cell(frame["bb_upper"][i]),
                       price_cell(frame["bb_lower"][i]), price_cell(frame["bb_middle"][i]),
                       frame["rsi"][i], TRUE)
        IN  [row EXCEPT !.cols =
                [k \in {"bb_percent", "price_change_1", "price_change_5",
                        "volatility"} |-> frame[k][i]] @@ @]]

\* A plausible bug: any answer of the broker taken for an acknowledgment.
acknowledged_any_response(trade_response) == trade_response # None

\* line 93: trade_response and ("orderFillTransaction" in trade_response or
\* "orderCreateTransaction" in trade_response)
acknowledged(trade_response) ==
    /\ trade_response # None
    /\ Val(trade_response) # {}
    /\ \/ "orderFillTransaction" \in Val(trade_response)
       \/ "orderCreateTransaction" \in Val(trade_response)

\* lines 96-98: what send_email_notification is called with
notification(instrument, units, d) ==
    [instrument |-> instrument,
     direction  |-> Val(d.trade_direction),
     units      |-> units,
     sl         |-> d.sl_price_str,
     tp         |-> d.tp_price_str]

\* one entry of the cycle's record
Event(kind, instrument, data) == [kind |-> kind, instrument |-> instrument, data |-> data]

----------------------------------------------------------------------------
(* What the collaborators may answer *)

\* the account's instruments: the request raises, the list lacks the
\* instruments of the cycle, or it holds each with its precision context
AccountReplies ==
    {[raises |-> TRUE, instruments |-> <<>>],
     [raises |-> FALSE,
      instruments |-> <<[name |-> "XAU_USD", pipLocation |-> -2, displayPrecision |-> 3]>>],
     [raises |-> FALSE,
      instruments |-> <<[name |-> "XAU_USD", pipLocation |-> -2, displayPrecision |-> 3],
                        [name |-> "EUR_USD", pipLocation |-> -2, displayPrecision |-> 3],
                        [name |-> "USD_JPY", pipLocation |-> -1, displayPrecision |-> 2]>>]}

\* n candles closing at 3000, but the one before the last at signal_close
Feed(n, signal_close) == [i \in 1..n |-> IF i = n - 1 THEN signal_close ELSE 3000]

\* no candle, one candle too few, or just enough; the candle before the last
\* closes far below, at, or far above the others
CandleFeeds ==
    {<<>>, Feed(MIN_CANDLES - 1, 3000 + 63)}
    \cup {Feed(MIN_CANDLES, s) : s \in {3000 - 63, 3000, 3000 + 63}}

CandleReplies ==
    {[raises |-> TRUE, candles |-> <<>>]}
    \cup {[raises |-> FALSE, candles |-> cs] : cs \in CandleFeeds}

\* the account's open trades, and whether the request for them raises
OpenTradesReplies(instrument) ==
    {[raises |-> r, trades |-> ts] :
        r \in BOOLEAN,
        ts \in {<<[instrument |-> "XAU_USD", id |-> 7]>>,
                <<[instrument |-> "XAU_USD", id |-> 7],
                  [instrument |-> instrument, id |-> 8]>>}}

\* what a raising order request raises: a V20Error, whose msg is the body
\* of the broker's answer (a text, with or without the word 'message'), a
\* mapping (with or without the key 'message') or None; or another exception
NoError == [type |-> "None", msg |-> [type |-> "NoneType", has_message |-> FALSE]]
OrderErrors ==
    {[type |-> "V20Error", msg |-> [type |-> t, has_message |-> h]] :
        t \in {"str", "dict"}, h \in BOOLEAN}
    \cup {[type |-> "V20Error", msg |-> [type |-> "NoneType", has_message |-> FALSE]],
          [type |-> "ConnectionError", msg |-> [type |-> "NoneType", has_message |-> FALSE]]}

\* the broker's answer to an order: the request raises (a rejection, a
\* failed connection), or it answers with these keys
OrderReplies ==
    {[raises |-> TRUE, error |-> e, keys |-> {}] : e \in OrderErrors}
    \cup {[raises |-> FALSE, error |-> NoError, keys |-> ks] :
            ks \in {{},
                    {"orderRejectTransaction"},
                    {"orderCreateTransaction", "orderCancelTransaction"},
                    {"orderCreateTransaction", "orderFillTransaction"}}}

\* the feature lists a cycle may have loaded: one the indicator frame
\* covers, and one naming a column it does not have
MainFeatureLists == {l \in FeatureLists : Len(l) = 3}

\* the periods of live_trader_config in a cycle: a band period the candles
\* cover, and one they do not
MainConfigs ==
    {[BOLLINGER_PERIOD |-> p, BOLLINGER_STD_DEV |-> 2, RSI_PERIOD |-> 3] : p \in {9, 31}}

----------------------------------------------------------------------------
(* main, one cycle.  pc is "loop" at the head of the instrument loop,      *)
(* "signal" between lines 86 and 88, "finished" after line 104, "exited"   *)
(* after the return of line 63, "raised" when an exception left main.      *)

\* lines 60-63: the model or its feature list did not load
LoadFails ==
    /\ pc = "idle"
    /\ pc' = "exited"
    /\ UNCHANGED <<df_with_indicators, model, model_features, pip_location,
                   display_precision, decision, feature_candle, features_out,
                   closes, config, df_out, main_vars>>

\* lines 54-63: client and model loaded
StartCycle ==
    /\ pc = "idle"
    /\ \E features \in MainFeatureLists, cfg \in MainConfigs :
        /\ model_features' = features
        /\ config' = cfg
    /\ pc' = "loop"
    /\ UNCHANGED <<df_with_indicators, model, pip_location, display_precision,
                   decision, feature_candle, features_out, closes, df_out,
                   main_vars>>

\* a `continue` of lines 70, 75 and 80
Skip(instrument, reason) ==
    /\ events' = events \o <<Event("check", instrument, None),
                             Event("skip", instrument, reason)>>
    /\ pc' = "loop"
    /\ instrument_index' = instrument_index + 1

\* lines 82-84 and 86, 101-102: the decision, and where the loop goes on
DecideInstrument(instrument, m) ==
    /\ model' = m
    /\ decision' = get_trade_decision(df_with_indicators', m, model_features,
                                      pip_location', display_precision')
    /\ events' = events \o
           <<Event("check", instrument, None),
             Event("decision", instrument, [returned |-> decision', model |-> m])>>
    /\ IF decision'.trade_direction # None
       THEN pc' = "signal" /\ instrument_index' = instrument_index
       ELSE pc' = "loop" /\ instrument_index' = instrument_index + 1

\* lines 65-84 and 101-102: the loop body up to the decision
EvaluateInstrument ==
    /\ pc = "loop"
    /\ instrument_index <= Len(INSTRUMENTS)
    /\ \E account \in AccountReplies, candles \in CandleReplies :
        LET instrument == INSTRUMENTS[instrument_index]
            details == get_instrument_details(account, instrument)
            df_candles == get_historical_candles(candles)
        IN  IF details[1] = None \/ details[2] = None
            THEN /\ Skip(instrument, "details")
                 /\ UNCHANGED <<pip_location, display_precision, closes, df_out,
                                df_with_indicators, model, decision>>
            ELSE /\ pip_location' = Val(details[1])
                 /\ display_precision' = Val(details[2])
                 /\ closes' = candles.candles
                 /\ IF too_few_candles(df_candles)
                    THEN /\ Skip(instrument, "candles")
                         /\ UNCHANGED <<df_out, df_with_indicators, model, decision>>
                    ELSE /\ df_out' = add_all_technical_indicators(df_candles, config)
                         /\ IF bands_null_recent(df_out')
                            THEN /\ Skip(instrument, "bands")
                                 /\ UNCHANGED <<df_with_indicators, model, decision>>
                            ELSE /\ df_with_indicators' = indicator_rows(df_out')
                                 /\ \E m \in ModelBehaviours :
                                        DecideInstrument(instrument, m)
    /\ UNCHANGED <<model_features, config, feature_candle, features_out, earlier>>

\* lines 86-100: a direction was returned.  An exception that leaves
\* place_trade leaves main at line 92: nothing after it runs, the remaining
\* instruments are not checked and line 104 is not reached.
ExecuteSignal ==
    /\ pc = "signal"
    /\ \E trades_reply \in OpenTradesReplies(INSTRUMENTS[instrument_index]),
          order_reply \in OrderReplies :
        LET instrument == INSTRUMENTS[instrument_index]
            current_open_trade == get_open_trades(trades_reply, instrument)
            placed == place_trade(order_reply, instrument, TRADE_UNITS,
                                  Val(decision.trade_direction),
                                  decision.sl_price_str, decision.tp_price_str)
            trade_response == placed.response
            escapes == current_open_trade = None /\ placed.raised # None
        IN  /\ events' = events
                \o <<Event("open_trades", instrument,
                           [reply |-> trades_reply, returned |-> current_open_trade])>>
                \o (IF current_open_trade # None
                    THEN <<>>
                    ELSE <<Event("place_trade", instrument, placed)>>
                         \o (IF ~escapes /\ acknowledged(trade_response)
                             THEN <<Event("email", instrument,
                                          notification(instrument, TRADE_UNITS, decision))>>
                             ELSE <<>>))
            /\ IF escapes
               THEN pc' = "raised" /\ instrument_index' = instrument_index
               ELSE pc' = "loop" /\ instrument_index' = instrument_index + 1
    /\ UNCHANGED <<df_with_indicators, model, model_features, pip_location,
                   display_precision, decision, feature_candle, features_out,
                   closes, config, df_out, earlier>>

\* line 104: the loop is exhausted
FinishCycle ==
    /\ pc = "loop"
    /\ instrument_index > Len(INSTRUMENTS)
    /\ pc' = "finished"
    /\ UNCHANGED <<df_with_indicators, model, model_features, pip_location,
                   display_precision, decision, feature_candle, features_out,
                   closes, config, df_out, main_vars>>

NextMain == LoadFails \/ StartCycle \/ EvaluateInstrument \/ ExecuteSignal \/ FinishCycle

SpecMain == Init /\ [][NextMain]_vars

\* The scheduling of main: it is one sequential process, and every call it
\* makes returns or raises, so a step that is enabled is taken.
FairSpecMain == SpecMain /\ WF_vars(NextMain)

----------------------------------------------------------------------------
(* Properties of main *)

InCycle == pc \in {"loop", "signal", "finished", "raised"}
EventRange == 1..Len(events)

\* the instruments main has announced (line 66), in order
Checked ==
    LET RECURSIVE Pick(_)
        Pick(k) == IF k = 0 THEN <<>>
                   ELSE Pick(k - 1) \o (IF events[k].kind = "check"
                                        THEN <<events[k].instrument>> ELSE <<>>)
    IN  Pick(Len(events))

\* the entries that record a failure for their instrument: a skip (no
\* precision, too few candles, undefined bands), a breakout that ended
\* without a direction (incomplete features, a raising predict, a label
\* other than 1), a failed open-trades request, a rejected order (the
\* order request raised: place_trade returned None or raised itself)
SkippedAt(k) == events[k].kind = "skip"
BreakoutNoDirectionAt(k) ==
    /\ events[k].kind = "decision"
    /\ events[k].data.returned.prepare_calls = 1
    /\ events[k].data.returned.trade_direction = None
QueryFailedAt(k) == events[k].kind = "open_trades" /\ events[k].data.reply.raises
OrderRejectedAt(k) == events[k].kind = "place_trade" /\ events[k].data.response = None
FailureAt(k) ==
    SkippedAt(k) \/ BreakoutNoDirectionAt(k) \/ QueryFailedAt(k) \/ OrderRejectedAt(k)

\* an order for the instrument was submitted / was acknowledged by the broker
OrderedAt(k, instrument) ==
    events[k].kind = "place_trade" /\ events[k].instrument = instrument
Ordered(instrument) == \E k \in EventRange : OrderedAt(k, instrument)
Traded(instrument) ==
    \E k \in EventRange :
        /\ OrderedAt(k, instrument)
        /\ events[k].data.response # None
        /\ \/ "orderFillTransaction" \in Val(events[k].data.response)
           \/ "orderCreateTransaction" \in Val(events[k].data.response)

\* the account held an open trade of the instrument when main asked
HadOpenTrade(reply, instrument) ==
    \E i \in 1..Len(reply.trades) : reply.trades[i].instrument = instrument

\* C11 as stated: once client and model are loaded, main announces the
\* instruments of INSTRUMENTS in order and all of them by the end of the
\* cycle, and a failure recorded for an instrument (precision not found, too
\* few candles, undefined bands, incomplete features, inference exception,
\* open-trades request error, order rejection) leaves that instrument
\* without a trade and never ends the loop early: no exception leaves main.
C11_AsStated ==
    InCycle =>
        /\ Len(Checked) <= Len(INSTRUMENTS)
        /\ \A k \in 1..Len(Checked) : Checked[k] = INSTRUMENTS[k]
        /\ pc = "finished" => Checked = INSTRUMENTS
        /\ pc # "raised"
        /\ \A k \in EventRange : FailureAt(k) => ~Traded(events[k].instrument)

\* a rejected order ended the cycle before every instrument was checked
CycleRaisedEarly ==
    /\ pc = "raised"
    /\ Len(Checked) < Len(INSTRUMENTS)
    /\ events[Len(events)].kind = "place_trade"
    /\ events[Len(events)].data.raised = Some("TypeError")

\* What the loop does keep: the instruments are announced in order, a
\* cycle that reaches line 104 has announced all of them, and a skip, a
\* breakout without a direction or a rejected order leaves the instrument
\* without a trade.  Every cycle ends, at line 104 or by the exception of
\* place_trade.
LoopVisitsInOrder ==
    InCycle =>
        /\ Len(Checked) <= Len(INSTRUMENTS)
        /\ \A k \in 1..Len(Checked) : Checked[k] = INSTRUMENTS[k]
        /\ pc = "finished" => Checked = INSTRUMENTS
        /\ pc = "loop" => Len(Checked) = instrument_index - 1
        /\ \A k \in EventRange :
             (SkippedAt(k) \/ BreakoutNoDirectionAt(k) \/ OrderRejectedAt(k))
                 => ~Traded(events[k].instrument)
LoopReachesEndOrRaises == (pc = "loop") ~> (pc \in {"finished", "raised"})

EmailAt(k) == events[k].kind = "email"

\* C12: send_email_notification is invoked for an instrument only right
\* after place_trade for that instrument returned, in the same cycle, a
\* response holding orderFillTransaction or orderCreateTransaction, with that
\* order's direction, units, stop-loss and take-profit as payload, and at
\* most once; never when no order was submitted, when place_trade returned
\* None, or when the response lacks both keys.
C12_EmailOnlyAfterAcknowledgment ==
    \A k \in EventRange :
        EmailAt(k) =>
            /\ k > 1
            /\ OrderedAt(k - 1, events[k].instrument)
            /\ events[k - 1].data.raised = None
            /\ events[k - 1].data.response # None
            /\ \/ "orderFillTransaction" \in Val(events[k - 1].data.response)
               \/ "orderCreateTransaction" \in Val(events[k - 1].data.response)
            /\ events[k].data.instrument = events[k - 1].data.order.instrument
            /\ events[k].data.sl = events[k - 1].data.order.stopLossOnFill
            /\ events[k].data.tp = events[k - 1].data.order.takeProfitOnFill
            /\ events[k - 1].data.order.units =
                 (IF events[k].data.direction = "BUY" THEN 1 ELSE -1) * events[k].data.units
            /\ \A j \in EventRange :
                 (EmailAt(j) /\ events[j].instrument = events[k].instrument) => j = k

\* a cycle that ended with one instrument notified after a filled order, and
\* the other ordered, answered without either key, and not notified
C12_Witness ==
    /\ pc = "finished"
    /\ \E k \in EventRange : EmailAt(k)
    /\ \E k \in EventRange :
        /\ events[k].kind = "place_trade"
        /\ events[k].data.response = Some({"orderRejectTransaction"})
        /\ k = Len(events) \/ ~EmailAt(k + 1)

\* C14 as stated: place_trade is called for an instrument at most once per
\* cycle, only right after get_trade_decision returned a direction for it
\* and the open-trades query that followed established that it has no open
\* trade: the request answered, and the answer holds no trade of the
\* instrument.  No order is submitted for an instrument with an open trade,
\* nor when the open-trades request fails.
C14_AsStated ==
    \A k \in EventRange :
        events[k].kind = "place_trade" =>
            /\ \A j \in EventRange : OrderedAt(j, events[k].instrument) => j = k
            /\ k > 2
            /\ events[k - 2].kind = "decision"
            /\ events[k - 2].instrument = events[k].instrument
            /\ events[k - 2].data.returned.trade_direction # None
            /\ events[k - 1].kind = "open_trades"
            /\ events[k - 1].instrument = events[k].instrument
            /\ ~HadOpenTrade(events[k - 1].data.reply, events[k].instrument)
            /\ ~events[k - 1].data.reply.raises

\* What the code does keep: an order is submitted at most once per
\* instrument, only after a returned direction, and never when
\* get_open_trades returned a trade.
OrderOnlyAfterDirectionAndNoTradeReturned ==
    \A k \in EventRange :
        events[k].kind = "place_trade" =>
            /\ \A j \in EventRange : OrderedAt(j, events[k].instrument) => j = k
            /\ k > 2
            /\ events[k - 2].kind = "decision"
            /\ events[k - 2].instrument = events[k].instrument
            /\ events[k - 2].data.returned.trade_direction # None
            /\ events[k - 1].kind = "open_trades"
            /\ events[k - 1].instrument = events[k].instrument
            /\ events[k - 1].data.returned = None

\* the failed request hid an open trade of the instrument, and the order was
\* submitted
OrderedOverOpenTrade ==
    \E k \in EventRange :
        /\ events[k].kind = "place_trade"
        /\ k > 1
        /\ events[k - 1].kind = "open_trades"
        /\ events[k - 1].data.reply.raises
        /\ HadOpenTrade(events[k - 1].data.reply, events[k].instrument)

----------------------------------------------------------------------------
(* Two evaluations of get_trade_decision, side by side: what a caller can  *)
(* tell from the returned values                                           *)

\* signal candles on bands of no width at 3007: the close is undefined, off
\* the bands on either side, or on them
PairSignalRows ==
    {Row(<<"Timestamp", 9, 2>>, c, Num(3007), Num(3007), Num(2990), Num(50), TRUE) :
        c \in PriceCells}

PairFeatureRows ==
    {FeatureRow(Num(3000), Num(3007), v) : v \in {"complete", "rsi_nan"}}

\* what is known of one evaluation: its arguments and what it did
Evaluation(df, m, features, d) ==
    [df |-> df, model |-> m, features |-> features, decision |-> d]

EvaluateOne ==
    /\ pc = "idle"
    /\ \E s \in PairSignalRows, f \in PairFeatureRows, m \in ModelBehaviours,
          features \in FeatureLists, ctx \in PrecisionContexts :
        Decide(<<OlderRow, s, f>>, m, features, ctx)

EvaluateOther ==
    /\ pc = "decided"
    /\ earlier = None
    /\ earlier' = Some(Evaluation(df_with_indicators, model, model_features, decision))
    /\ \E s \in PairSignalRows, f \in PairFeatureRows, m \in ModelBehaviours,
          features \in FeatureLists, ctx \in PrecisionContexts :
        /\ df_with_indicators' = <<OlderRow, s, f>>
        /\ model' = m
        /\ model_features' = features
        /\ pip_location' = ctx[1]
        /\ display_precision' = ctx[2]
        /\ decision' = get_trade_decision(<<OlderRow, s, f>>, m, features, ctx[1], ctx[2])
    /\ UNCHANGED <<pc, feature_candle, features_out, closes, config, df_out,
                   instrument_index, events>>

NextPair == EvaluateOne \/ EvaluateOther

SpecPair == Init /\ [][NextPair]_vars

\* the two evaluations of a state that has both
Compared == pc = "decided" /\ earlier # None
Later == Evaluation(df_with_indicators, model, model_features, decision)
Both == {Val(earlier), Later}

\* the value get_trade_decision returned
Returned(e) ==
    <<e.decision.trade_direction, e.decision.sl_price_str, e.decision.tp_price_str>>

\* the signal candle closes strictly outside exactly one band
AboveIn(e) ==
    LET s == e.df[Len(e.df) - 1].cols
    IN  /\ notna(s["close"]) /\ notna(s["bb_upper"]) /\ notna(s["bb_lower"])
        /\ Val(s["close"]) > Val(s["bb_upper"])
BelowIn(e) ==
    LET s == e.df[Len(e.df) - 1].cols
    IN  /\ notna(s["close"]) /\ notna(s["bb_upper"]) /\ notna(s["bb_lower"])
        /\ Val(s["close"]) < Val(s["bb_lower"])
BreakoutIn(e) == Len(e.df) >= 2 /\ AboveIn(e) # BelowIn(e)

\* every expected feature is defined on the feature candle
CompleteIn(e) ==
    LET f == e.df[Len(e.df)]
    IN  /\ notna(f.cols["close"]) /\ notna(f.cols["bb_middle"])
        /\ \A i \in 1..Len(e.features) :
             ~FeatureUndefined(e.features[i], f, AboveIn(e), BelowIn(e))

\* the outcome of an evaluation, in the words of the trade decision
OutcomeOf(e) ==
    IF ~BreakoutIn(e) THEN "NoSignal"
    ELSE IF CompleteIn(e) /\ ~e.model.raises /\ e.model.label = 1 THEN "Trade"
    ELSE "BreakoutNoTrade"

\* C13 as stated: an evaluation results in NoSignal, BreakoutNoTrade or
\* Trade(direction, stop_loss_price, take_profit_price), and the returned
\* values of two evaluations with different outcomes differ: a caller can
\* tell NoSignal from BreakoutNoTrade.
C13_AsStated ==
    Compared =>
        /\ \A e \in Both :
             OutcomeOf(e) = "Trade" <=> e.decision.trade_direction \in {Some("SELL"), Some("BUY")}
        /\ OutcomeOf(Val(earlier)) # OutcomeOf(Later) => Returned(Val(earlier)) # Returned(Later)

\* C13, amended: get_trade_decision returns one of two shapes.  It returns
\* (None, None, None) when the signal candle shows no breakout and equally
\* when a breakout was detected but the features were incomplete, predict
\* raised or the prediction was not 1, and (direction, sl, tp) with direction
\* SELL or BUY and both prices set otherwise.  The returned value tells a
\* trade from the other two outcomes, and does not tell NoSignal from
\* BreakoutNoTrade.
C13_TwoReturnShapes ==
    Compared =>
        /\ \A e \in Both :
             /\ OutcomeOf(e) = "Trade" =>
                  /\ e.decision.trade_direction \in {Some("SELL"), Some("BUY")}
                  /\ e.decision.sl_price_str # None
                  /\ e.decision.tp_price_str # None
             /\ OutcomeOf(e) # "Trade" => Returned(e) = <<None, None, None>>
             /\ ~e.decision.raised
        /\ (OutcomeOf(Val(earlier)) # "Trade" /\ OutcomeOf(Later) # "Trade")
               => Returned(Val(earlier)) = Returned(Later)
        /\ (OutcomeOf(Val(earlier)) = "Trade") # (OutcomeOf(Later) = "Trade")
               => Returned(Val(earlier)) # Returned(Later)

\* an evaluation without a breakout, then one whose breakout reached predict
\* and ended without a trade
C13_Witness ==
    /\ Compared
    /\ OutcomeOf(Val(earlier)) = "NoSignal"
    /\ OutcomeOf(Later) = "BreakoutNoTrade"
    /\ decision.predict_calls = 1
    /\ Returned(Val(earlier)) = Returned(Later)

====
